---------------------------- MODULE Spec2Model ----------------------------
(***************************************************************************)
(* Model of examples/client_example.py: the client of the RPC Test Server  *)
(* HTTP API.  The backend is an external collaborator; every HTTP call     *)
(* draws its response nondeterministically (a network error, or a status   *)
(* code with a JSON body of the shape of the wire contract).               *)
(*                                                                         *)
(* Three entry points are modelled, chosen by Init:                        *)
(*   entry = "main"  the driver main()                                     *)
(*   entry = "wait"  a direct call wait_for_test_completion(id, max_wait)  *)
(*   entry = "op"    direct calls of the six API operations                *)
(* The clock advances only by time.sleep.                                  *)
(***************************************************************************)
EXTENDS Integers, Sequences, FiniteSets

VARIABLES
    entry,          \* which entry point runs
    pc,             \* position in the running code
    clock,          \* time.time(), in seconds
    start_time,     \* wait_for_test_completion: local start_time
    max_wait_time,  \* wait_for_test_completion: parameter max_wait_time
    test_id,        \* main: local test_id / wait: parameter test_id
    status,         \* wait_for_test_completion: local status
    wait_ret,       \* return value of wait_for_test_completion
    wait_how,       \* the return statement it left by
    results,        \* main: local results
    summary,        \* main: what the summary block printed
    health,         \* main: outcome of the initial health check
    exit_code,      \* process exit status (-1 while running)
    http,           \* every HTTP request sent so far, in order
    console,        \* tag of the last line printed
    last,           \* the most recent operation invocation and its outcome
    ncalls,         \* number of operation invocations so far
    polls,          \* get_test_status calls made by the current wait
    sleeps,         \* time.sleep calls made by the current wait
    seen            \* classes of the poll answers the current wait received

vars == << entry, pc, clock, start_time, max_wait_time, test_id, status,
           wait_ret, wait_how, results, summary, health, exit_code, http, console,
           last, ncalls, polls, sleeps, seen >>

---------------------------------------------------------------------------
(* Bounds of the model *)

MaxWait == 12       \* largest max_wait_time tried by the direct wait call
MaxCalls == 2       \* operation invocations made by the "op" entry

(* Program constants *)

DefaultMaxWait == 300   \* def wait_for_test_completion(test_id, max_wait_time=300)
SleepInterval == 5      \* time.sleep(5)

---------------------------------------------------------------------------
(* Python / JSON values *)

None == [t |-> "None"]
Absent == [t |-> "absent"]          \* a key the JSON object does not carry
Str(s) == [t |-> "str", v |-> s]
Bool(b) == [t |-> "bool", v |-> b]
Num(n) == [t |-> "num", v |-> n]
Dict(d) == [t |-> "dict", v |-> d]  \* d: record, Absent marks a missing key
List(s) == [t |-> "list", v |-> s]

\* Python truth value testing (bool(x))
Truthy(x) ==
    CASE x.t = "None" -> FALSE
      [] x.t = "absent" -> FALSE
      [] x.t = "bool" -> x.v
      [] x.t = "num" -> x.v # 0
      [] x.t = "str" -> x.v # ""
      [] x.t = "list" -> Len(x.v) > 0
      [] x.t = "dict" -> \E k \in DOMAIN x.v : x.v[k] # Absent

\* dict.get(key, default): the default only when the key is missing
Get(d, k, default) == IF d.v[k] = Absent THEN default ELSE d.v[k]


---------------------------------------------------------------------------
(* The backend: what one HTTP call can come back with *)

NetErr == [kind |-> "neterr", code |-> 0, body |-> None]
Http(c, b) == [kind |-> "http", code |-> c, body |-> b]

Codes == {200, 204, 404, 500}

\* POST /test: {test_id}
CreateBody(x) == Dict([test_id |-> x])
CreateBodies == { CreateBody(x) : x \in {Absent, None, Str(""), Str("abc")} }

\* GET /test/{id}: {status, overall, results}
OverallEmpty ==
    Dict([total_requests |-> Absent, total_success |-> Absent,
          overall_rps |-> Absent, overall_success_rate |-> Absent])
OverallFull ==
    Dict([total_requests |-> Num(10), total_success |-> Num(9),
          overall_rps |-> Num(2), overall_success_rate |-> Num(90)])
MethodResult ==
    Dict([method_name |-> Str("getAccountInfo"), total_requests |-> Num(10),
          success_rate |-> Num(90), requests_per_sec |-> Num(2)])
TestBody(s, o, r) == Dict([status |-> s, overall |-> o, results |-> r])
Statuses == {Absent, None, Str("completed"), Str("failed"), Str("running")}
TestBodies ==
    { TestBody(s, o, r) :
        s \in Statuses,
        o \in {Absent, OverallEmpty, OverallFull},
        r \in {Absent, List(<< >>), List(<< MethodResult >>)} }
\* a poll reads the status field only
PollBodies == { TestBody(s, Absent, Absent) : s \in Statuses }

\* GET /tests: a JSON array
ListBodies == { List(<< >>), List(<< Str("abc") >>) }

Responses(bodies) == {NetErr} \cup { Http(c, b) : c \in Codes, b \in bodies }

---------------------------------------------------------------------------
(* The operations.  Each maps the response of its HTTP call to             *)
(*   reqs  the HTTP requests the invocation sends                          *)
(*   ret   the value it returns                                            *)
(*   exc   the exception it lets through to the caller ("none" if none)    *)
(*   msg   the tag of the last line it prints                              *)

Req(m, r, id) == [method |-> m, route |-> r, id |-> id]
Outcome(reqs, ret, msg) == [reqs |-> reqs, ret |-> ret, exc |-> "none", msg |-> msg]

start_test(resp) ==
    LET reqs == << Req("POST", "/test", Absent) >> IN
    IF resp.kind = "neterr" THEN Outcome(reqs, None, "network_error")
    ELSE IF resp.code = 200
         THEN Outcome(reqs, Get(resp.body, "test_id", None), "test_id")
         ELSE Outcome(reqs, None, "error_response")

\* variant: a network error is answered by sending the request again
start_simple_test_Retry(resp) ==
    LET reqs == << Req("POST", "/test", Absent) >> IN
    IF resp.kind = "neterr" THEN Outcome(reqs \o reqs, None, "network_error")
    ELSE IF resp.code = 200
         THEN Outcome(reqs, Get(resp.body, "test_id", None), "test_id")
         ELSE Outcome(reqs, None, "error_response")

start_simple_test(resp) ==
    LET reqs == << Req("POST", "/test", Absent) >> IN
    IF resp.kind = "neterr" THEN Outcome(reqs, None, "network_error")
    ELSE IF resp.code = 200
         THEN Outcome(reqs, Get(resp.body, "test_id", None), "test_id")
         ELSE Outcome(reqs, None, "error_response")

\* variant: result.get("status") without the "unknown" default
get_test_status_NoDefault(id, resp) ==
    LET reqs == << Req("GET", "/test/{id}", id) >> IN
    IF resp.kind = "neterr" THEN Outcome(reqs, None, "network_error")
    ELSE IF resp.code = 200
         THEN Outcome(reqs, Get(resp.body, "status", None), "status")
         ELSE Outcome(reqs, None, "failed_status")

get_test_status(id, resp) ==
    LET reqs == << Req("GET", "/test/{id}", id) >> IN
    IF resp.kind = "neterr" THEN Outcome(reqs, None, "network_error")
    ELSE IF resp.code = 200
         THEN Outcome(reqs, Get(resp.body, "status", Str("unknown")), "status")
         ELSE Outcome(reqs, None, "failed_status")

\* variant: the body is returned unless the status is "failed"
get_test_results_NotFailed(id, resp) ==
    LET reqs == << Req("GET", "/test/{id}", id) >> IN
    IF resp.kind = "neterr" THEN Outcome(reqs, None, "network_error")
    ELSE IF resp.code = 200
         THEN IF Get(resp.body, "status", None) # Str("failed")
              THEN Outcome(reqs, resp.body, "test_results")
              ELSE Outcome(reqs, None, "still_running")
         ELSE Outcome(reqs, None, "failed_results")

get_test_results(id, resp) ==
    LET reqs == << Req("GET", "/test/{id}", id) >> IN
    IF resp.kind = "neterr" THEN Outcome(reqs, None, "network_error")
    ELSE IF resp.code = 200
         THEN IF Get(resp.body, "status", None) = Str("completed")
              THEN Outcome(reqs, resp.body, "test_results")
              ELSE Outcome(reqs, None, "still_running")
         ELSE Outcome(reqs, None, "failed_results")

\* variant: no except clause, the RequestException reaches the caller
list_all_tests_NoExcept(resp) ==
    LET reqs == << Req("GET", "/tests", Absent) >> IN
    IF resp.kind = "neterr"
    THEN [reqs |-> reqs, ret |-> None, exc |-> "RequestException",
          msg |-> "none"]
    ELSE IF resp.code = 200
         THEN Outcome(reqs, resp.body, "all_tests")
         ELSE Outcome(reqs, None, "failed_list")

list_all_tests(resp) ==
    LET reqs == << Req("GET", "/tests", Absent) >> IN
    IF resp.kind = "neterr" THEN Outcome(reqs, None, "network_error")
    ELSE IF resp.code = 200
         THEN Outcome(reqs, resp.body, "all_tests")
         ELSE Outcome(reqs, None, "failed_list")

\* variant: every 2xx status counts as success
delete_test_Any2xx(id, resp) ==
    LET reqs == << Req("DELETE", "/test/{id}", id) >> IN
    IF resp.kind = "neterr" THEN Outcome(reqs, Bool(FALSE), "network_error")
    ELSE IF resp.code >= 200 /\ resp.code < 300
         THEN Outcome(reqs, Bool(TRUE), "deleted")
         ELSE Outcome(reqs, Bool(FALSE), "failed_delete")

delete_test(id, resp) ==
    LET reqs == << Req("DELETE", "/test/{id}", id) >> IN
    IF resp.kind = "neterr" THEN Outcome(reqs, Bool(FALSE), "network_error")
    ELSE IF resp.code = 200
         THEN Outcome(reqs, Bool(TRUE), "deleted")
         ELSE Outcome(reqs, Bool(FALSE), "failed_delete")

\* variant: <= in the loop condition
WaitLoopCond_Inclusive(now, start, max) == now - start <= max

\* wait_for_test_completion: the loop condition
WaitLoopCond(now, start, max) == now - start < max

\* variant: the "completed" branch is missing
WaitDecision_NoCompleted(st) ==
    IF st = Str("failed") THEN "failed"
    ELSE IF st = None THEN "no_status"
    ELSE "sleep"

\* variant: the "status is None" branch is missing
WaitDecision_NoNone(st) ==
    IF st = Str("completed") THEN "completed"
    ELSE IF st = Str("failed") THEN "failed"
    ELSE "sleep"

\* wait_for_test_completion: what the loop body does with a status
\* ("completed": return True; "failed", "no_status": return False)
WaitDecision(st) ==
    IF st = Str("completed") THEN "completed"
    ELSE IF st = Str("failed") THEN "failed"
    ELSE IF st = None THEN "no_status"
    ELSE "sleep"

\* main: the health check passes
HealthOk(resp) == resp.kind = "http" /\ resp.code = 200

\* variant: "if test_id is None" in place of "if not test_id"
StartOk_IsNotNone(id) == id # None

\* main: "if not test_id" lets the driver go on
StartOk(id) == Truthy(id)

\* the class of a poll answer (history of the backend, for the properties)
PollClass(resp) ==
    IF resp.kind = "neterr" THEN "neterr"
    ELSE IF resp.code # 200 THEN "non200"
    ELSE IF resp.body.v.status = Absent THEN "nostatus"
    ELSE IF resp.body.v.status = None THEN "null"
    ELSE resp.body.v.status.v

---------------------------------------------------------------------------
(* Initial states *)

NoCall == [op |-> "none", kind |-> "none", code |-> 0, body |-> None,
           ret |-> None, exc |-> "none", msg |-> "none"]

InitCommon ==
    /\ clock = 0
    /\ start_time = 0
    /\ status = Absent
    /\ wait_ret = Absent
    /\ wait_how = "none"
    /\ results = Absent
    /\ summary = [overall |-> FALSE, methods |-> 0]
    /\ health = "unchecked"
    /\ exit_code = -1
    /\ http = << >>
    /\ console = "none"
    /\ last = NoCall
    /\ ncalls = 0
    /\ polls = 0
    /\ sleeps = 0
    /\ seen = {}

\* python client_example.py
InitMain ==
    /\ entry = "main"
    /\ pc = "health"
    /\ test_id = Absent
    /\ max_wait_time = DefaultMaxWait

\* wait_for_test_completion("abc", max_wait_time)
InitWait ==
    /\ entry = "wait"
    /\ pc = "wait_enter"
    /\ test_id = Str("abc")
    /\ max_wait_time \in 0..MaxWait

\* the operations called one by one
InitOp ==
    /\ entry = "op"
    /\ pc = "op"
    /\ test_id = Absent
    /\ max_wait_time = DefaultMaxWait

Init == InitCommon /\ (InitMain \/ InitWait \/ InitOp)

---------------------------------------------------------------------------
(* One operation invocation: its requests go out, its outcome is recorded *)

Invoke(opname, resp, r) ==
    /\ http' = http \o r.reqs
    /\ console' = r.msg
    /\ ncalls' = ncalls + 1
    /\ last' = [op |-> opname, kind |-> resp.kind, code |-> resp.code,
                body |-> resp.body, ret |-> r.ret, exc |-> r.exc,
                msg |-> r.msg]

\* where control goes after an invocation made by main(): an exception that
\* nothing catches ends the process with a traceback and exit status 1
MainAfter(r, next) ==
    IF r.exc # "none"
    THEN pc' = "crashed" /\ exit_code' = 1
    ELSE pc' = next /\ exit_code' = exit_code

---------------------------------------------------------------------------
(* wait_for_test_completion *)

\* start_time = time.time()
WaitEnter ==
    /\ pc = "wait_enter"
    /\ start_time' = clock
    /\ console' = "waiting"
    /\ polls' = 0 /\ sleeps' = 0 /\ seen' = {}
    /\ pc' = "wait_test"
    /\ UNCHANGED << entry, clock, max_wait_time, test_id, status, wait_ret, wait_how,
                    results, summary, health, exit_code, http, last, ncalls >>

\* while time.time() - start_time < max_wait_time: ... else timeout
WaitTest ==
    /\ pc = "wait_test"
    /\ IF WaitLoopCond(clock, start_time, max_wait_time)
       THEN /\ pc' = "wait_poll"
            /\ UNCHANGED << wait_ret, wait_how, console >>
       ELSE /\ pc' = "wait_return"
            /\ wait_ret' = Bool(FALSE)
            /\ wait_how' = "timeout"
            /\ console' = "timeout"
    /\ UNCHANGED << entry, clock, start_time, max_wait_time, test_id, status,
                    results, summary, health, exit_code, http, last, ncalls,
                    polls, sleeps, seen >>

\* status = get_test_status(test_id)
WaitPoll ==
    /\ pc = "wait_poll"
    /\ \E resp \in Responses(PollBodies) :
         LET r == get_test_status(test_id, resp) IN
         /\ Invoke("get_test_status", resp, r)
         /\ status' = r.ret
         /\ seen' = seen \cup {PollClass(resp)}
         /\ IF r.exc # "none"
            THEN IF entry = "main"
                 THEN pc' = "crashed" /\ exit_code' = 1
                 ELSE pc' = "wait_raised" /\ exit_code' = exit_code
            ELSE pc' = "wait_branch" /\ exit_code' = exit_code
    /\ polls' = polls + 1
    /\ UNCHANGED << entry, clock, start_time, max_wait_time, test_id, wait_ret, wait_how,
                    results, summary, health, sleeps >>

\* if status == "completed" ... elif "failed" ... elif status is None ...
WaitBranch ==
    /\ pc = "wait_branch"
    /\ LET d == WaitDecision(status) IN
       IF d = "sleep"
       THEN /\ pc' = "wait_sleep"
            /\ UNCHANGED << wait_ret, wait_how, console >>
       ELSE /\ pc' = "wait_return"
            /\ wait_ret' = Bool(d = "completed")
            /\ wait_how' = d
            /\ console' = d
    /\ UNCHANGED << entry, clock, start_time, max_wait_time, test_id, status,
                    results, summary, health, exit_code, http, last, ncalls,
                    polls, sleeps, seen >>

\* time.sleep(5)
WaitSleep ==
    /\ pc = "wait_sleep"
    /\ clock' = clock + SleepInterval
    /\ sleeps' = sleeps + 1
    /\ pc' = "wait_test"
    /\ UNCHANGED << entry, start_time, max_wait_time, test_id, status, wait_ret, wait_how,
                    results, summary, health, exit_code, http, console, last,
                    ncalls, polls, seen >>

---------------------------------------------------------------------------
(* main *)

\* requests.get(f"{SERVER_URL}/"); sys.exit(1) unless it answers 200
MainHealth ==
    /\ entry = "main" /\ pc = "health"
    /\ \E resp \in Responses({None}) :
         /\ http' = Append(http, Req("GET", "/", Absent))
         /\ IF HealthOk(resp)
            THEN /\ health' = "ok"
                 /\ console' = "server_running"
                 /\ pc' = "list_before"
                 /\ exit_code' = exit_code
            ELSE /\ health' = "failed"
                 /\ console' = "server_down"
                 /\ pc' = "exit"
                 /\ exit_code' = 1
    /\ UNCHANGED << entry, clock, start_time, max_wait_time, test_id, status,
                    wait_ret, wait_how, results, summary, last, ncalls, polls, sleeps,
                    seen >>

\* list_all_tests(), before the test
MainListBefore ==
    /\ entry = "main" /\ pc = "list_before"
    /\ \E resp \in Responses(ListBodies) :
         LET r == list_all_tests(resp) IN
         /\ Invoke("list_all_tests", resp, r)
         /\ MainAfter(r, "start")
    /\ UNCHANGED << entry, clock, start_time, max_wait_time, test_id, status,
                    wait_ret, wait_how, results, summary, health, polls, sleeps, seen >>

\* test_id = start_test(); if not test_id: sys.exit(1);
\* then the call wait_for_test_completion(test_id)
MainStart ==
    /\ entry = "main" /\ pc = "start"
    /\ \E resp \in Responses(CreateBodies) :
         LET r == start_test(resp) IN
         /\ Invoke("start_test", resp, r)
         /\ test_id' = r.ret
         /\ IF r.exc # "none"
            THEN pc' = "crashed" /\ exit_code' = 1
            ELSE IF StartOk(r.ret)
                 THEN pc' = "wait_enter" /\ exit_code' = exit_code
                 ELSE pc' = "exit" /\ exit_code' = 1
    /\ max_wait_time' = DefaultMaxWait
    /\ UNCHANGED << entry, clock, start_time, status, wait_ret, wait_how, results,
                    summary, health, polls, sleeps, seen >>

\* if wait_for_test_completion(test_id):
MainIfWait ==
    /\ entry = "main" /\ pc = "wait_return"
    /\ pc' = IF Truthy(wait_ret) THEN "results" ELSE "list_after"
    /\ UNCHANGED << entry, clock, start_time, max_wait_time, test_id, status,
                    wait_ret, wait_how, results, summary, health, exit_code, http,
                    console, last, ncalls, polls, sleeps, seen >>

\* results = get_test_results(test_id); if results: the summary
MainResults ==
    /\ entry = "main" /\ pc = "results"
    /\ \E resp \in Responses(TestBodies) :
         LET r == get_test_results(test_id, resp) IN
         /\ Invoke("get_test_results", resp, r)
         /\ results' = r.ret
         /\ summary' =
              IF r.exc = "none" /\ Truthy(r.ret)
              THEN [overall |-> Truthy(Get(r.ret, "overall", OverallEmpty)),
                    methods |-> Len(Get(r.ret, "results", List(<< >>)).v)]
              ELSE summary
         /\ MainAfter(r, "list_after")
    /\ UNCHANGED << entry, clock, start_time, max_wait_time, test_id, status,
                    wait_ret, wait_how, health, polls, sleeps, seen >>

\* list_all_tests(), after the test
MainListAfter ==
    /\ entry = "main" /\ pc = "list_after"
    /\ \E resp \in Responses(ListBodies) :
         LET r == list_all_tests(resp) IN
         /\ Invoke("list_all_tests", resp, r)
         /\ MainAfter(r, "delete")
    /\ UNCHANGED << entry, clock, start_time, max_wait_time, test_id, status,
                    wait_ret, wait_how, results, summary, health, polls, sleeps, seen >>

\* delete_test(test_id); the last print; the process ends with status 0
MainDelete ==
    /\ entry = "main" /\ pc = "delete"
    /\ \E resp \in Responses({None}) :
         LET r == delete_test(test_id, resp) IN
         /\ Invoke("delete_test", resp, r)
         /\ IF r.exc # "none"
            THEN pc' = "crashed" /\ exit_code' = 1
            ELSE pc' = "done" /\ exit_code' = 0
    /\ UNCHANGED << entry, clock, start_time, max_wait_time, test_id, status,
                    wait_ret, wait_how, results, summary, health, polls, sleeps, seen >>

---------------------------------------------------------------------------
(* The operations called directly *)

OpNames == {"start_test", "start_simple_test", "get_test_status",
            "get_test_results", "list_all_tests", "delete_test"}

OpResponses(op) ==
    CASE op \in {"start_test", "start_simple_test"} -> Responses(CreateBodies)
      [] op \in {"get_test_status", "get_test_results"} -> Responses(TestBodies)
      [] op = "list_all_tests" -> Responses(ListBodies)
      [] op = "delete_test" -> Responses({None})

OpOutcome(op, id, resp) ==
    CASE op = "start_test" -> start_test(resp)
      [] op = "start_simple_test" -> start_simple_test(resp)
      [] op = "get_test_status" -> get_test_status(id, resp)
      [] op = "get_test_results" -> get_test_results(id, resp)
      [] op = "list_all_tests" -> list_all_tests(resp)
      [] op = "delete_test" -> delete_test(id, resp)

OpCall ==
    /\ entry = "op" /\ pc = "op"
    /\ ncalls < MaxCalls
    /\ \E op \in OpNames, id \in {Str("abc"), Str("t2")} :
         \E resp \in OpResponses(op) :
           /\ Invoke(op, resp, OpOutcome(op, id, resp))
           /\ test_id' = id
    /\ UNCHANGED << entry, pc, clock, start_time, max_wait_time, status,
                    wait_ret, wait_how, results, summary, health, exit_code, polls,
                    sleeps, seen >>

---------------------------------------------------------------------------

Next ==
    \/ MainHealth
    \/ MainListBefore
    \/ MainStart
    \/ WaitEnter
    \/ WaitTest
    \/ WaitPoll
    \/ WaitBranch
    \/ WaitSleep
    \/ MainIfWait
    \/ MainResults
    \/ MainListAfter
    \/ MainDelete
    \/ OpCall

Spec == Init /\ [][Next]_vars

TypeOK ==
    /\ entry \in {"main", "wait", "op"}
    /\ clock \in Nat /\ start_time \in Nat /\ max_wait_time \in Nat
    /\ exit_code \in {-1, 0, 1}
    /\ polls \in Nat /\ sleeps \in Nat

---------------------------------------------------------------------------
(* Properties *)

CeilDiv(a, b) == (a + b - 1) \div b

\* wait_for_test_completion has returned
WaitReturned == wait_ret # Absent

\* the wait is inside its loop, about to test, poll or sleep again
WaitLooping == pc \in {"wait_test", "wait_poll", "wait_sleep"}

\* every poll so far was answered 200 with a status that is not terminal
OnlyNonTerminal == seen \subseteq {"running", "nostatus"}

NonEmptyId(x) == x.t = "str" /\ x.v # ""

IdRequests == { i \in 1..Len(http) : http[i].route = "/test/{id}" }

Sentinel(op) == IF op = "delete_test" THEN Bool(FALSE) ELSE None

\* C1: against a backend that answers every poll 200 with a non-terminal
\* status, wait_for_test_completion returns False and the time elapsed at the
\* return is at most max_wait_time.
C1_TimeoutWithinMaxWait ==
    (WaitReturned /\ OnlyNonTerminal) =>
        /\ wait_ret = Bool(FALSE)
        /\ clock - start_time <= max_wait_time

\* C2: the first poll that reports "completed" makes the wait return True at
\* once: the loop is not re-entered, so no further poll and no further sleep
\* (every earlier poll was followed by exactly one sleep, this one by none).
C2_CompletedReturnsAtOnce ==
    status = Str("completed") =>
        /\ ~WaitLooping
        /\ pc = "wait_branch" \/ (wait_ret = Bool(TRUE) /\ wait_how = "completed")
        /\ polls = sleeps + 1
        /\ entry = "wait" => Len(http) = polls

C2_Witness ==
    /\ wait_ret = Bool(TRUE)
    /\ status = Str("completed")
    /\ "running" \in seen
    /\ polls >= 2

\* C3: the first poll that reports "failed", or whose status call fails
\* (non-200 or network error: get_test_status returns None), makes the wait
\* return False at once, with no further poll and no sleep, before max_wait_time
\* has elapsed.
C3_FailureReturnsAtOnce ==
    (seen \cap {"failed", "non200", "neterr"} # {}) =>
        /\ status = (IF "failed" \in seen THEN Str("failed") ELSE None)
        /\ ~WaitLooping
        /\ pc = "wait_branch" \/
             (wait_ret = Bool(FALSE) /\ wait_how \in {"failed", "no_status"})
        /\ polls = sleeps + 1
        /\ clock - start_time < max_wait_time
        /\ entry = "wait" => Len(http) = polls

C3_Witness ==
    /\ wait_ret = Bool(FALSE)
    /\ wait_how = "no_status"
    /\ "non200" \in seen
    /\ "running" \in seen
    /\ clock - start_time + SleepInterval < max_wait_time

\* C4: in main(), every status, result or delete request carries a non-empty
\* test_id, and none is made once start_test has returned None or "".
C4_NonEmptyTestId ==
    entry = "main" =>
        /\ \A i \in IdRequests : NonEmptyId(http[i].id)
        /\ (last.op # "none" /\ test_id # Absent /\ ~NonEmptyId(test_id)) =>
               (IdRequests = {} /\ pc = "exit")

C4_Witness ==
    /\ entry = "main"
    /\ pc = "done"
    /\ Cardinality(IdRequests) >= 3

\* C5: main() ends with a non-zero exit only when the health check fails or
\* start_test fails; otherwise, whatever list_all_tests, the wait,
\* get_test_results and delete_test come back with, it goes on through the
\* second listing and the delete call and ends with exit status 0.
C5_DriverAbortsOnlyOnHealthOrStart ==
    entry = "main" =>
        /\ exit_code = 1 =>
             /\ pc = "exit"
             /\ \/ health = "failed"
                \/ (last.op = "start_test" /\ ~Truthy(test_id))
        /\ pc = "done" =>
             /\ exit_code = 0
             /\ Len(http) >= 5
             /\ http[Len(http) - 1] = Req("GET", "/tests", Absent)
             /\ http[Len(http)] = Req("DELETE", "/test/{id}", test_id)
        /\ pc \notin {"done", "exit"} => ENABLED Next

C5_Witness ==
    /\ entry = "main"
    /\ pc = "done"
    /\ wait_how = "timeout"
    /\ http[Len(http) - 1] = Req("GET", "/tests", Absent)
    /\ last.op = "delete_test" /\ last.kind = "neterr"

\* C6: on a 200 answer get_test_results returns the full body when its status
\* is "completed", and otherwise (a missing status included) returns None and
\* reports the test as still running.
C6_ResultsOnlyWhenCompleted ==
    (last.op = "get_test_results" /\ last.kind = "http" /\ last.code = 200) =>
        /\ last.exc = "none"
        /\ IF last.body.v.status = Str("completed")
           THEN last.ret = last.body /\ last.msg = "test_results"
           ELSE last.ret = None /\ last.msg = "still_running"

C6_Witness ==
    /\ last.op = "get_test_results" /\ last.kind = "http" /\ last.code = 200
    /\ last.body.v.status = Absent
    /\ last.body.v.overall # Absent
    /\ last.ret = None

\* C7: against a backend that always reports a non-terminal status the wait
\* makes exactly ceil(max_wait_time / 5) polls, each followed by exactly one
\* sleep, and every sleep advances the clock by the same 5 seconds.
C7_PollCount ==
    /\ (WaitReturned /\ OnlyNonTerminal) =>
          /\ polls = CeilDiv(max_wait_time, SleepInterval)
          /\ sleeps = polls
    /\ clock - start_time = SleepInterval * sleeps

C7_Witness ==
    /\ WaitReturned
    /\ OnlyNonTerminal
    /\ max_wait_time % SleepInterval # 0
    /\ polls >= 2

\* C8: every operation sends exactly one HTTP request per invocation, and on a
\* network error returns its sentinel (False for delete_test, None otherwise)
\* and lets no exception through.
C8_OneRequestNoRetry ==
    /\ Len(http) = ncalls + (IF health = "unchecked" THEN 0 ELSE 1)
    /\ last.kind = "neterr" =>
          (last.exc = "none" /\ last.ret = Sentinel(last.op))

C8_Witness ==
    /\ ncalls = 2
    /\ last.op = "start_simple_test"
    /\ last.kind = "neterr"

\* C9: delete_test returns True exactly when the response status is 200.
C9_DeleteTrueIff200 ==
    (last.op = "delete_test" /\ last.kind = "http") =>
        /\ last.ret \in {Bool(TRUE), Bool(FALSE)}
        /\ (last.ret = Bool(TRUE)) <=> (last.code = 200)

C9_Witness ==
    /\ last.op = "delete_test"
    /\ last.code = 204
    /\ last.ret = Bool(FALSE)

\* C10: a 200 answer without a status field makes get_test_status return
\* "unknown", which the wait treats as in progress: against a backend that
\* always answers so, the wait returns False through the timeout only.
C10_MissingStatusIsInProgress ==
    /\ (last.op = "get_test_status" /\ last.kind = "http" /\ last.code = 200
            /\ last.body.v.status = Absent) =>
          (last.ret = Str("unknown") /\ last.exc = "none")
    /\ (WaitReturned /\ seen = {"nostatus"}) =>
          /\ wait_ret = Bool(FALSE)
          /\ wait_how = "timeout"
          /\ status = Str("unknown")
          /\ polls = CeilDiv(max_wait_time, SleepInterval)

C10_Witness ==
    /\ WaitReturned
    /\ seen = {"nostatus"}
    /\ wait_how = "timeout"
    /\ polls >= 2

=============================================================================
